---- MODULE Spec2Model ----
(***************************************************************************)
(* AccompanimentRnnSequenceGenerator                                       *)
(* (magenta/models/accompaniment_rnn/accompaniment_rnn_generator.py):      *)
(* the seconds-to-steps conversion, computed in IEEE-754 double precision  *)
(* as Python computes it, and the _generate pipeline as a state machine    *)
(* with one action per statement group.                                    *)
(***************************************************************************)
EXTENDS Integers, Naturals, Sequences, FiniteSets, TLC

(***************************************************************************)
(* Bounds of the model.                                                    *)
(***************************************************************************)
\* times of the generate model are whole seconds 0..MaxTime
MaxTime == 3
\* a request carries 0..MaxSections input_sections and generate_sections
MaxSections == 2
\* notes of the input sequence belong to instruments 0..MaxInstrument
MaxInstrument == 2
\* the conversion is applied to seconds = n/10 for n in 0..MaxTenths
MaxTenths == 12
\* the conversion is applied to qpm in 1..MaxQpm
MaxQpm == 30

(***************************************************************************)
(* Program constants.                                                      *)
(***************************************************************************)
STEPS_PER_QUARTER == 4
DEFAULT_QUARTERS_PER_MINUTE == 120
SECONDS_PER_MINUTE == 60
MELODY_NO_EVENT == -2
MIN_SEED_PITCH == 16
MAX_SEED_PITCH == 54
\* significand width of a Python float (IEEE-754 binary64)
MantBits == 53

(***************************************************************************)
(* Python floats.  A float is zero or m * 2^e, m an integer of exactly     *)
(* MantBits bits kept as limbs (digits in base LimbBase, least significant *)
(* first).  Every operation rounds to nearest, ties to even, as IEEE-754   *)
(* binary64 arithmetic does.                                               *)
(***************************************************************************)
LimbBits == 15
LimbBase == 2 ^ LimbBits
\* limbs of a significand
MantLimbs == (MantBits + LimbBits - 1) \div LimbBits

FloatZero == [zero |-> TRUE, m |-> [i \in 1..MantLimbs |-> 0], e |-> 0]

Limb(n, i) == IF i \in 1..Len(n) THEN n[i] ELSE 0

\* number of bits of the natural n # 0
BitLength(n) ==
    LET h == CHOOSE i \in 1..Len(n) : n[i] # 0 /\ \A j \in (i + 1)..Len(n) : n[j] = 0
        k == CHOOSE b \in 1..LimbBits : 2 ^ (b - 1) <= n[h] /\ n[h] < 2 ^ b
    IN  LimbBits * (h - 1) + k

\* bit i (from 0, the least significant) of n
BitAt(n, i) == (Limb(n, (i \div LimbBits) + 1) \div (2 ^ (i % LimbBits))) % 2

\* n \div 2^s, as len limbs
ShiftRight(n, s, len) ==
    LET q == s \div LimbBits
        r == s % LimbBits
    IN  [i \in 1..len |-> (Limb(n, i + q) \div (2 ^ r))
                          + ((Limb(n, i + q + 1) % (2 ^ r)) * (2 ^ (LimbBits - r)))]

\* n % 2^s # 0
LowBitsNonZero(n, s) ==
    \E i \in 1..Len(n) :
        \/ i <= (s \div LimbBits) /\ n[i] # 0
        \/ i = (s \div LimbBits) + 1 /\ (n[i] % (2 ^ (s % LimbBits))) # 0

\* m + 1, for m not all ones
Increment(m) ==
    LET j == CHOOSE i \in 1..Len(m) :
                 m[i] # LimbBase - 1 /\ \A l \in 1..(i - 1) : m[l] = LimbBase - 1
    IN  [i \in 1..Len(m) |-> IF i < j THEN 0 ELSE IF i = j THEN m[i] + 1 ELSE m[i]]

\* the float nearest to n * 2^e (plus a nonzero fraction of 2^e when sticky),
\* ties to even; n has more than MantBits bits
RoundToFloat(n, sticky, e) ==
    LET s    == BitLength(n) - MantBits
        m    == ShiftRight(n, s, MantLimbs)
        rnd  == BitAt(n, s - 1)
        low  == sticky \/ LowBitsNonZero(n, s - 1)
        ones == \A i \in 0..(MantBits - 1) : BitAt(m, i) = 1
    IN  IF rnd = 1 /\ (low \/ (m[1] % 2) = 1)
        THEN IF ones
             THEN [zero |-> FALSE,
                   m |-> [i \in 1..MantLimbs |->
                            IF i = MantLimbs
                            THEN 2 ^ ((MantBits - 1) % LimbBits) ELSE 0],
                   e |-> e + s + 1]
             ELSE [zero |-> FALSE, m |-> Increment(m), e |-> e + s]
        ELSE [zero |-> FALSE, m |-> m, e |-> e + s]

\* least k with a * 2^k >= b
RECURSIVE ScaleUp(_, _)
ScaleUp(a, b) == IF a >= b THEN 0 ELSE 1 + ScaleUp(2 * a, b)

\* greatest k with b * 2^k <= a, for a >= b
RECURSIVE ScaleDown(_, _)
ScaleDown(a, b) == IF 2 * b > a THEN 0 ELSE 1 + ScaleDown(a, 2 * b)

\* the float a / b of two floats holding the integers 0 <= a and 0 < b, both
\* below LimbBase: long division to 1 + 4 * LimbBits quotient bits, rounded
FloatDivInt(a, b) ==
    IF a = 0 THEN FloatZero
    ELSE LET up == ScaleUp(a, b)
             dn == IF a >= b THEN ScaleDown(a, b) ELSE 0
             d  == b * 2 ^ dn
             r0 == a * 2 ^ up - d
             r1 == (r0 * LimbBase) % d
             r2 == (r1 * LimbBase) % d
             r3 == (r2 * LimbBase) % d
             r4 == (r3 * LimbBase) % d
             q  == << (r3 * LimbBase) \div d, (r2 * LimbBase) \div d,
                      (r1 * LimbBase) \div d, (r0 * LimbBase) \div d, 1 >>
         IN  RoundToFloat(q, r4 # 0, dn - up - 4 * LimbBits)

\* the float holding the integer n >= 0
FloatOfInt(n) == FloatDivInt(n, 1)

\* column k of the long multiplication of x by y: the low halves of the limb
\* products of weight k and the high halves of those of weight k - 1
RECURSIVE ColumnSum(_, _, _, _)
ColumnSum(x, y, k, i) ==
    IF i = 0 THEN 0
    ELSE ((Limb(x, i) * Limb(y, k + 1 - i)) % LimbBase)
         + ((Limb(x, i) * Limb(y, k - i)) \div LimbBase)
         + ColumnSum(x, y, k, i - 1)

RECURSIVE Carry(_, _, _, _)
Carry(cols, k, carry, acc) ==
    IF k > Len(cols) THEN acc
    ELSE Carry(cols, k + 1, (cols[k] + carry) \div LimbBase,
               Append(acc, ((cols[k] + carry) % LimbBase)))

\* the natural x * y
BigMul(x, y) ==
    Carry([k \in 1..(Len(x) + Len(y)) |-> ColumnSum(x, y, k, Len(x))], 1, 0, <<>>)

\* the float x * y
FloatMul(x, y) ==
    IF x.zero \/ y.zero THEN FloatZero
    ELSE RoundToFloat(BigMul(x.m, y.m), FALSE, x.e + y.e)

\* the natural below 2^(2 * LimbBits) held by the limbs n
SmallInt(n) == Limb(n, 1) + Limb(n, 2) * LimbBase

\* int(x) for a float 0 <= x < 2^(2 * LimbBits): truncation
FloatToInt(x) ==
    IF x.zero THEN 0 ELSE SmallInt(ShiftRight(x.m, 0 - x.e, MantLimbs))

\* _seconds_to_steps: int(seconds * (qpm / 60.0) * self._steps_per_quarter),
\* seconds a float and qpm a float holding an integer
seconds_to_steps(seconds, qpm) ==
    FloatToInt(FloatMul(FloatMul(seconds, FloatDivInt(qpm, SECONDS_PER_MINUTE)),
                        FloatOfInt(STEPS_PER_QUARTER)))

\* floor(x * qpm * steps_per_quarter / 60) of the real number the float x holds
ExactSteps(x, qpm) ==
    IF x.zero THEN 0
    ELSE SmallInt(ShiftRight(BigMul(x.m, <<qpm * STEPS_PER_QUARTER>>), 0 - x.e,
                             MantLimbs + 1)) \div SECONDS_PER_MINUTE


(***************************************************************************)
(* State.                                                                  *)
(***************************************************************************)
VARIABLES
    optimized,           \* python -O (__debug__ is False): asserts are stripped
    generator_options,   \* the request: input_sections, generate_sections, args
    caller_sequence,     \* the input_sequence argument as the caller passed it
    input_sequence,      \* the local input_sequence (rebound at line 90)
    temperature,
    generate_section,
    quantized_sequence,
    extracted_melodies,
    qpm,
    start_step,
    end_step,
    main_melody,
    accompaniment,
    num_steps,           \* first argument of generate_melody_pair
    generated_pair,
    sequence,            \* the value returned
    raised,              \* the exception that ended the call, if any
    calls,               \* the collaborator operations performed, in order
    pc,
    seconds,             \* conversion alone: the seconds argument, num / den
    conv_qpm,            \* conversion alone: the qpm argument
    steps,               \* conversion alone: the result
    conv_pc

locals == << temperature, generate_section, quantized_sequence, extracted_melodies,
             qpm, start_step, end_step, main_melody, accompaniment, num_steps,
             generated_pair, sequence >>
request == << optimized, generator_options, caller_sequence >>
conv == << seconds, conv_qpm, steps, conv_pc >>
vars == << request, input_sequence, locals, raised, calls, pc, conv >>

(***************************************************************************)
(* Collaborators: magenta.music and the model.                             *)
(***************************************************************************)
\* self._model.predictahead_steps: the look-ahead of the configured model,
\* taken here as two quarter notes
predictahead_steps == 8

StepsPerBar == 4 * STEPS_PER_QUARTER

\* magenta.music.extract_subsequence: the notes that start inside the window,
\* none ending after it
extract_subsequence(seq, start_time, end_time) ==
    [seq EXCEPT !.notes =
        { [n EXCEPT !.end_time = IF n.end_time < end_time THEN n.end_time ELSE end_time] :
            n \in { x \in seq.notes : x.start_time >= start_time /\ x.start_time < end_time } }]

\* the step nearest to time t (seconds) at tempo q
QuantizeTime(t, q) ==
    (2 * t * q * STEPS_PER_QUARTER + SECONDS_PER_MINUTE) \div (2 * SECONDS_PER_MINUTE)

\* QuantizedSequence.from_note_sequence: every note on the step grid
from_note_sequence(seq, q) ==
    { [instrument |-> n.instrument, pitch |-> n.pitch,
       start |-> QuantizeTime(n.start_time, q), end |-> QuantizeTime(n.end_time, q)] :
        n \in seq.notes }

\* the elements of a finite set of integers, ascending
Ascending(S) ==
    [k \in 1..Cardinality(S) |-> CHOOSE i \in S : Cardinality({j \in S : j < i}) = k - 1]

Min(S) == CHOOSE i \in S : \A j \in S : i <= j
Max(S) == CHOOSE i \in S : \A j \in S : i >= j

\* the melody of one instrument's notes: it starts at the bar of its first note
\* and ends with its last note
MelodyOf(notes) ==
    LET first == Min({n.start : n \in notes})
        begin == first - (first % StepsPerBar)
        last  == Max({n.end : n \in notes})
    IN  [start_step |-> begin,
         events |-> [k \in 1..(last - begin) |->
                       IF \E n \in notes : n.start = begin + k - 1
                       THEN (CHOOSE n \in notes : n.start = begin + k - 1).pitch
                       ELSE MELODY_NO_EVENT]]

\* magenta.music.extract_melodies with min_bars=0, min_unique_pitches=1,
\* gap_bars=inf: one melody for every instrument that has notes
extract_melodies(quantized) ==
    LET instruments == Ascending({n.instrument : n \in quantized})
    IN  [k \in 1..Len(instruments) |->
            MelodyOf({n \in quantized : n.instrument = instruments[k]})]

\* Melody.set_length: pads with no-events or deletes events[steps:]
set_length(melody, n) ==
    LET len == Len(melody.events)
    IN  [melody EXCEPT !.events =
            IF n > len THEN melody.events \o [i \in 1..(n - len) |-> MELODY_NO_EVENT]
            ELSE IF n >= 0 THEN SubSeq(melody.events, 1, n)
            ELSE SubSeq(melody.events, 1, IF len + n > 0 THEN len + n ELSE 0)]

\* Melody.to_sequence: one note for every pitch event, tagged with instrument
to_sequence(melody, instrument, q) ==
    LET at == Ascending({i \in 1..Len(melody.events) : melody.events[i] >= 0})
    IN  [notes |-> [k \in 1..Len(at) |->
                      [pitch |-> melody.events[at[k]], instrument |-> instrument,
                       step |-> melody.start_step + at[k] - 1]],
         qpm |-> q]

\* what generate_melody_pair may return for one track
GeneratedEvents == { <<>>, <<60>>, <<62, MELODY_NO_EVENT, 64>> }

(***************************************************************************)
(* Requests and input sequences.                                           *)
(***************************************************************************)
Instruments == 0..MaxInstrument

\* an instrument has no note (-1) or one note of one second; instruments
\* other than 0 and 1 have it in the last second
NoteStarts(i) == IF i <= 1 THEN -1..(MaxTime - 1) ELSE {-1, MaxTime - 1}

NotesOf(f) ==
    { [instrument |-> i, pitch |-> 60 + i, start_time |-> f[i], end_time |-> f[i] + 1] :
        i \in { j \in Instruments : f[j] >= 0 } }

InputSequences ==
    { [notes |-> NotesOf(f), tempos |-> t] :
        f \in { g \in [Instruments -> -1..(MaxTime - 1)] :
                  \A i \in Instruments : g[i] \in NoteStarts(i) },
        t \in { <<>>, <<60>> } }

InputSections ==
    { [start_time |-> 0, end_time |-> 1], [start_time |-> 0, end_time |-> MaxTime] }

\* output windows of one second, of no length, and ending a second early
GenerateSections ==
    { g \in [start_time : 0..MaxTime, end_time : 0..MaxTime] :
        g.end_time - g.start_time \in -1..1 }

Repeat(x, n) == [i \in 1..n |-> x]

NoArgs == [x \in {} |-> 0]

GeneratorOptions ==
    { [input_sections |-> Repeat(w, n), generate_sections |-> Repeat(g, k), args |-> a] :
        w \in InputSections, n \in 0..MaxSections,
        g \in GenerateSections, k \in 0..MaxSections,
        a \in { NoArgs, [temperature |-> 5] } }

(***************************************************************************)
(* _generate.                                                              *)
(***************************************************************************)
NoMelody == [start_step |-> 0, events |-> <<>>]
NoSection == [start_time |-> 0, end_time |-> 0]
NoSequence == [notes |-> <<>>, qpm |-> 0]
NoError == [kind |-> "none", reason |-> "", values |-> <<>>]

GenerationError(reason, values) ==
    [kind |-> "SequenceGeneratorException", reason |-> reason, values |-> values]

\* int(seconds * (qpm / 60.0) * 4) of the whole seconds and tempos of the model
StepsTable ==
    [t \in 0..MaxTime, q \in {60, DEFAULT_QUARTERS_PER_MINUTE} |->
        seconds_to_steps(FloatOfInt(t), q)]

\* variant: a second input window is let through
TooManyInputSections_Mutant(options) == Len(options.input_sections) > 2

\* line 74
TooManyInputSections(options) == Len(options.input_sections) > 1

\* line 78
NotOneGenerateSection(options) == Len(options.generate_sections) # 1

\* lines 93-96
AccompanimentEndTime(seq) ==
    LET accompaniment_end_times == { n.end_time : n \in { x \in seq.notes : x.instrument = 1 } }
    IN  IF accompaniment_end_times # {} THEN Max(accompaniment_end_times) ELSE 0

\* variant: a start at the end of the accompaniment is refused too
StartsBeforeAccompanimentEnd_Mutant(accompaniment_end_time, section) ==
    accompaniment_end_time >= section.start_time

\* line 97
StartsBeforeAccompanimentEnd(accompaniment_end_time, section) ==
    accompaniment_end_time > section.start_time

\* line 115
MelodyCountAsserted(melodies) == 1 <= Len(melodies) /\ Len(melodies) <= 2

\* lines 117-118
QpmOf(seq) == IF seq.tempos # <<>> THEN seq.tempos[1] ELSE DEFAULT_QUARTERS_PER_MINUTE

\* variant: no start step is too early
BeforePredictahead_Mutant(step) == step < 0

\* line 123
BeforePredictahead(step) == step < predictahead_steps

\* lines 138-142
SeedAccompaniment(melody, step, pitch) ==
    [start_step |-> melody.start_step,
     events |-> [i \in 1..(step - melody.start_step) |-> MELODY_NO_EVENT] \o <<pitch>>]

\* variant: both tracks are tagged instrument 0
MergedSequence_Mutant(pair, q) ==
    LET first == to_sequence(pair[1], 0, q)
    IN  [first EXCEPT !.notes = first.notes \o to_sequence(pair[2], 0, q).notes]

\* lines 156-158
MergedSequence(pair, q) ==
    LET first == to_sequence(pair[1], 0, q)
    IN  [first EXCEPT !.notes = first.notes \o to_sequence(pair[2], 1, q).notes]

Raise(e) == raised' = e /\ pc' = "raised"

CheckInputSections ==
    /\ pc = "check_input_sections"
    /\ IF TooManyInputSections(generator_options)
       THEN Raise(GenerationError("input_sections",
                                  <<Len(generator_options.input_sections)>>))
       ELSE pc' = "check_generate_sections" /\ UNCHANGED raised
    /\ UNCHANGED << request, input_sequence, locals, calls, conv >>

CheckGenerateSections ==
    /\ pc = "check_generate_sections"
    /\ IF NotOneGenerateSection(generator_options)
       THEN Raise(GenerationError("generate_sections",
                                  <<Len(generator_options.generate_sections)>>))
       ELSE pc' = "read_options" /\ UNCHANGED raised
    /\ UNCHANGED << request, input_sequence, locals, calls, conv >>

\* lines 83-85
ReadOptions ==
    /\ pc = "read_options"
    /\ temperature' = IF "temperature" \in DOMAIN generator_options.args
                      THEN generator_options.args.temperature ELSE 10
    /\ generate_section' = generator_options.generate_sections[1]
    /\ pc' = "limit_input"
    /\ UNCHANGED << request, input_sequence, quantized_sequence, extracted_melodies,
                    qpm, start_step, end_step, main_melody, accompaniment, num_steps,
                    generated_pair, sequence, raised, calls, conv >>

\* lines 88-91
LimitInput ==
    /\ pc = "limit_input"
    /\ IF generator_options.input_sections # <<>>
       THEN LET input_section == generator_options.input_sections[1]
            IN  /\ input_sequence' = extract_subsequence(input_sequence,
                        input_section.start_time, input_section.end_time)
                /\ calls' = Append(calls, "extract_subsequence")
       ELSE UNCHANGED << input_sequence, calls >>
    /\ pc' = "check_accompaniment"
    /\ UNCHANGED << request, locals, raised, conv >>

\* lines 93-102
CheckAccompanimentEnd ==
    /\ pc = "check_accompaniment"
    /\ LET accompaniment_end_time == AccompanimentEndTime(input_sequence)
       IN  IF StartsBeforeAccompanimentEnd(accompaniment_end_time, generate_section)
           THEN Raise(GenerationError("accompaniment_end",
                        <<generate_section.start_time, accompaniment_end_time>>))
           ELSE pc' = "quantize" /\ UNCHANGED raised
    /\ UNCHANGED << request, input_sequence, locals, calls, conv >>

\* lines 105-107
Quantize ==
    /\ pc = "quantize"
    /\ quantized_sequence' = from_note_sequence(input_sequence, QpmOf(input_sequence))
    /\ calls' = Append(calls, "from_note_sequence")
    /\ pc' = "extract_melodies"
    /\ UNCHANGED << request, input_sequence, temperature, generate_section,
                    extracted_melodies, qpm, start_step, end_step, main_melody,
                    accompaniment, num_steps, generated_pair, sequence, raised, conv >>

\* lines 109-115
ExtractMelodies ==
    /\ pc = "extract_melodies"
    /\ extracted_melodies' = extract_melodies(quantized_sequence)
    /\ calls' = Append(calls, "extract_melodies")
    /\ IF ~optimized /\ ~MelodyCountAsserted(extracted_melodies')
       THEN Raise([kind |-> "AssertionError", reason |-> "", values |-> <<>>])
       ELSE pc' = "convert_steps" /\ UNCHANGED raised
    /\ UNCHANGED << request, input_sequence, temperature, generate_section,
                    quantized_sequence, qpm, start_step, end_step, main_melody,
                    accompaniment, num_steps, generated_pair, sequence, conv >>

\* lines 117-120
ConvertSteps ==
    /\ pc = "convert_steps"
    /\ qpm' = QpmOf(input_sequence)
    /\ start_step' = StepsTable[generate_section.start_time, qpm']
    /\ end_step' = StepsTable[generate_section.end_time, qpm']
    /\ pc' = "check_predictahead"
    /\ UNCHANGED << request, input_sequence, temperature, generate_section,
                    quantized_sequence, extracted_melodies, main_melody, accompaniment,
                    num_steps, generated_pair, sequence, raised, calls, conv >>

\* lines 122-128
CheckPredictahead ==
    /\ pc = "check_predictahead"
    /\ IF BeforePredictahead(start_step)
       THEN Raise(GenerationError("predictahead", <<predictahead_steps, start_step>>))
       ELSE pc' = "select_melodies" /\ UNCHANGED raised
    /\ UNCHANGED << request, input_sequence, locals, calls, conv >>

\* lines 130-131
TwoMelodies ==
    /\ pc = "select_melodies"
    /\ Len(extracted_melodies) = 2
    /\ main_melody' = extracted_melodies[1]
    /\ accompaniment' = extracted_melodies[2]
    /\ pc' = "set_length"
    /\ UNCHANGED << request, input_sequence, temperature, generate_section,
                    quantized_sequence, extracted_melodies, qpm, start_step, end_step,
                    num_steps, generated_pair, sequence, raised, calls, conv >>

\* lines 132-143
OneMelody ==
    /\ pc = "select_melodies"
    /\ Len(extracted_melodies) = 1
    /\ main_melody' = extracted_melodies[1]
    /\ \E pitch \in {MIN_SEED_PITCH, MAX_SEED_PITCH} :
           accompaniment' = SeedAccompaniment(main_melody', start_step, pitch)
    /\ start_step' = start_step + 1
    /\ pc' = "set_length"
    /\ UNCHANGED << request, input_sequence, temperature, generate_section,
                    quantized_sequence, extracted_melodies, qpm, end_step,
                    num_steps, generated_pair, sequence, raised, calls, conv >>

\* lines 144-147
OtherMelodyCount ==
    /\ pc = "select_melodies"
    /\ Len(extracted_melodies) \notin {1, 2}
    /\ Raise(GenerationError("melody_count", <<Len(extracted_melodies)>>))
    /\ UNCHANGED << request, input_sequence, locals, calls, conv >>

\* line 151
SetLength ==
    /\ pc = "set_length"
    /\ accompaniment' = set_length(accompaniment, start_step - accompaniment.start_step)
    /\ calls' = Append(calls, "set_length")
    /\ pc' = "generate"
    /\ UNCHANGED << request, input_sequence, temperature, generate_section,
                    quantized_sequence, extracted_melodies, qpm, start_step, end_step,
                    main_melody, num_steps, generated_pair, sequence, raised, conv >>

\* lines 153-155
GenerateMelodyPair ==
    /\ pc = "generate"
    /\ num_steps' = end_step - start_step
    /\ \E first \in GeneratedEvents, second \in GeneratedEvents :
           generated_pair' = << [start_step |-> main_melody.start_step, events |-> first],
                                [start_step |-> accompaniment.start_step,
                                 events |-> second] >>
    /\ calls' = Append(calls, "generate_melody_pair")
    /\ pc' = "to_sequence"
    /\ UNCHANGED << request, input_sequence, temperature, generate_section,
                    quantized_sequence, extracted_melodies, qpm, start_step, end_step,
                    main_melody, accompaniment, sequence, raised, conv >>

\* lines 156-159
ReturnSequence ==
    /\ pc = "to_sequence"
    /\ sequence' = MergedSequence(generated_pair, qpm)
    /\ calls' = calls \o << "to_sequence", "to_sequence" >>
    /\ pc' = "returned"
    /\ UNCHANGED << request, input_sequence, temperature, generate_section,
                    quantized_sequence, extracted_melodies, qpm, start_step, end_step,
                    main_melody, accompaniment, num_steps, generated_pair, raised, conv >>

LocalsUnset ==
    /\ temperature = 0
    /\ generate_section = NoSection
    /\ quantized_sequence = {}
    /\ extracted_melodies = <<>>
    /\ qpm = 0
    /\ start_step = 0
    /\ end_step = 0
    /\ main_melody = NoMelody
    /\ accompaniment = NoMelody
    /\ num_steps = 0
    /\ generated_pair = <<>>
    /\ sequence = NoSequence
    /\ raised = NoError
    /\ calls = <<>>

ConvIdle ==
    /\ seconds = [num |-> 0, den |-> 1]
    /\ conv_qpm = 0
    /\ steps = 0
    /\ conv_pc = "idle"

\* a call of _generate
Init ==
    /\ optimized \in BOOLEAN
    /\ generator_options \in GeneratorOptions
    /\ caller_sequence \in InputSequences
    /\ input_sequence = caller_sequence
    /\ LocalsUnset
    /\ pc = "check_input_sections"
    /\ ConvIdle

Next ==
    \/ CheckInputSections
    \/ CheckGenerateSections
    \/ ReadOptions
    \/ LimitInput
    \/ CheckAccompanimentEnd
    \/ Quantize
    \/ ExtractMelodies
    \/ ConvertSteps
    \/ CheckPredictahead
    \/ TwoMelodies
    \/ OneMelody
    \/ OtherMelodyCount
    \/ SetLength
    \/ GenerateMelodyPair
    \/ ReturnSequence

Spec == Init /\ [][Next]_vars

(***************************************************************************)
(* _seconds_to_steps alone.                                                *)
(***************************************************************************)
\* seconds in tenths, and the length 60 / q of a quarter note at tempo q
SecondsChoices ==
    { [num |-> n, den |-> 10] : n \in 0..MaxTenths }
        \cup { [num |-> SECONDS_PER_MINUTE, den |-> q] : q \in 1..MaxQpm }

InitConv ==
    /\ optimized = FALSE
    /\ generator_options = [input_sections |-> <<>>, generate_sections |-> <<>>,
                            args |-> NoArgs]
    /\ caller_sequence = [notes |-> {}, tempos |-> <<>>]
    /\ input_sequence = caller_sequence
    /\ LocalsUnset
    /\ pc = "idle"
    /\ seconds \in SecondsChoices
    /\ conv_qpm \in 1..MaxQpm
    /\ steps = 0
    /\ conv_pc = "call"

Convert ==
    /\ conv_pc = "call"
    /\ steps' = seconds_to_steps(FloatDivInt(seconds.num, seconds.den), conv_qpm)
    /\ conv_pc' = "done"
    /\ UNCHANGED << request, input_sequence, locals, raised, calls, pc, seconds, conv_qpm >>

NextConv == Convert

SpecConv == InitConv /\ [][NextConv]_vars

(***************************************************************************)
(* Properties.                                                             *)
(***************************************************************************)
Ended == pc \in {"raised", "returned"}

Count(log, name) == Cardinality({i \in 1..Len(log) : log[i] = name})

ModelCalls == Count(calls, "generate_melody_pair")

FailedWith(reason) ==
    pc = "raised" /\ raised.kind = "SequenceGeneratorException" /\ raised.reason = reason

\* the caller's sequence limited to the first input window, when there is one
Windowed ==
    IF generator_options.input_sections # <<>>
    THEN extract_subsequence(caller_sequence,
                             generator_options.input_sections[1].start_time,
                             generator_options.input_sections[1].end_time)
    ELSE caller_sequence

EndTimes(seq) == { n.end_time : n \in { x \in seq.notes : x.instrument = 1 } }

RequestedStartStep ==
    StepsTable[generator_options.generate_sections[1].start_time, QpmOf(caller_sequence)]

\* the first of the four request checks, in the order of the claim, that the
\* request violates
FirstViolated ==
    IF Len(generator_options.input_sections) > 1 THEN "input_sections"
    ELSE IF Len(generator_options.generate_sections) # 1 THEN "generate_sections"
    ELSE IF \E t \in EndTimes(Windowed) :
                t > generator_options.generate_sections[1].start_time
         THEN "accompaniment_end"
    ELSE IF RequestedStartStep < predictahead_steps THEN "predictahead"
    ELSE "none"

Extracted == Count(calls, "extract_melodies") = 1

\* C1: a call in which melody extraction returned 0 or more than 2 melodies
\* ends with a SequenceGeneratorException that names the count, and never
\* reaches the model.  (Stated for the calls that violate none of the four
\* request checks, whose errors come first.)
C1_MelodyCountError ==
    (Ended /\ Extracted /\ Len(extracted_melodies) \notin {1, 2}
           /\ FirstViolated = "none")
        => /\ FailedWith("melody_count")
           /\ raised.values = <<Len(extracted_melodies)>>
           /\ ModelCalls = 0

\* C2: when one of the four request checks is violated the call ends with a
\* SequenceGeneratorException for the first violated one, in the order input
\* windows, output windows, accompaniment end, predict-ahead, whatever the
\* number of melodies.
C2_FirstViolatedCheckReported ==
    (Ended /\ FirstViolated # "none") => FailedWith(FirstViolated)

\* C3: the model is invoked at most once, only in a call that passed every
\* check and extracted 1 or 2 melodies; a call that raised made no model
\* invocation, repeated no collaborator operation, and takes no further step.
C3_ModelInvokedOnceAfterChecks ==
    /\ ModelCalls <= 1
    /\ ModelCalls = 1 =>
          /\ FirstViolated = "none"
          /\ Len(extracted_melodies) \in {1, 2}
          /\ raised = NoError
    /\ \A name \in {"extract_subsequence", "from_note_sequence", "extract_melodies",
                    "set_length"} : Count(calls, name) <= 1
    /\ raised # NoError => ModelCalls = 0 /\ pc = "raised" /\ ~ENABLED Next

C3_Witness == pc = "returned" /\ ModelCalls = 1 /\ Len(extracted_melodies) = 1

\* C4: a request with 2 or more input windows ends with a
\* SequenceGeneratorException at the first check, and no collaborator
\* operation is ever performed for it.
C4_TwoInputWindowsFailFirst ==
    Len(generator_options.input_sections) >= 2
        => /\ calls = <<>>
           /\ pc \in {"check_input_sections", "raised"}
           /\ pc = "raised" => FailedWith("input_sections")

C4_Witness ==
    /\ Len(generator_options.input_sections) = 2
    /\ FailedWith("input_sections")
    /\ caller_sequence.notes # {}

\* C5 as stated: a request whose output window starts before the end of the
\* last instrument-1 note of the input sequence fails with a
\* SequenceGeneratorException, whatever its other fields; when the start equals
\* that end the accompaniment check passes.  (A call that the assert of line
\* 115 ends is counted as failed here, so that a violation is a call that
\* returns a sequence.)
C5_AsStated ==
    /\ (/\ Ended
        /\ generator_options.generate_sections # <<>>
        /\ \E t \in EndTimes(caller_sequence) :
               t > generator_options.generate_sections[1].start_time)
           => /\ pc = "raised"
              /\ raised.kind \in {"SequenceGeneratorException", "AssertionError"}
    /\ (/\ generator_options.generate_sections # <<>>
        /\ EndTimes(caller_sequence) # {}
        /\ Max(EndTimes(caller_sequence))
               = generator_options.generate_sections[1].start_time)
           => ~FailedWith("accompaniment_end")

\* C5 amended: a request whose output window starts before the end of the last
\* instrument-1 note of the input sequence as limited to the input window
\* (the whole sequence when the request has no input window) fails with a
\* SequenceGeneratorException, whatever its other fields; when the start equals
\* that end the accompaniment check passes.
C5_WindowedAccompanimentEnd ==
    /\ (/\ Ended
        /\ generator_options.generate_sections # <<>>
        /\ \E t \in EndTimes(Windowed) :
               t > generator_options.generate_sections[1].start_time)
           => pc = "raised" /\ raised.kind = "SequenceGeneratorException"
    /\ (/\ generator_options.generate_sections # <<>>
        /\ EndTimes(Windowed) # {}
        /\ Max(EndTimes(Windowed)) = generator_options.generate_sections[1].start_time)
           => ~FailedWith("accompaniment_end")

C5_Witness ==
    /\ FailedWith("accompaniment_end")
    /\ generator_options.input_sections # <<>>
    /\ "temperature" \in DOMAIN generator_options.args
    /\ Windowed # caller_sequence

\* C6: a call that passes the four request checks and extracts exactly one
\* melody does not fail; that melody is the main melody, and the accompaniment
\* handed to the model starts where the main melody starts, holds a no-event
\* at every step before the requested start step and ends with one pitch in
\* 16..54 at the step before the adjusted start step, which is the requested
\* start step plus 1.
C6_OneMelodySeed ==
    (Extracted /\ Len(extracted_melodies) = 1 /\ FirstViolated = "none")
        => /\ raised = NoError
           /\ pc \in {"generate", "to_sequence", "returned"} =>
                 /\ main_melody = extracted_melodies[1]
                 /\ accompaniment.start_step = main_melody.start_step
                 /\ start_step = RequestedStartStep + 1
                 /\ Len(accompaniment.events) = start_step - accompaniment.start_step
                 /\ \A i \in 1..(Len(accompaniment.events) - 1) :
                        accompaniment.events[i] = MELODY_NO_EVENT
                 /\ accompaniment.events[Len(accompaniment.events)]
                        \in MIN_SEED_PITCH..MAX_SEED_PITCH

\* C7: at every model invocation the accompaniment of the primer pair has
\* length start_step - accompaniment.start_step (start_step already advanced
\* in the one-melody path), and this length is not negative.
C7_AccompanimentSpansToStart ==
    ModelCalls = 1
        => /\ start_step - accompaniment.start_step >= 0
           /\ Len(accompaniment.events) = start_step - accompaniment.start_step

IsPitch(event) == event >= 0

\* C8: the returned sequence is the notes of the first generated melody, all
\* of instrument 0, followed by the notes of the second generated melody, all
\* of instrument 1: none dropped, none duplicated, no other instrument.
C8_ReturnedNotesPartition ==
    pc = "returned" =>
        LET first  == SelectSeq(generated_pair[1].events, IsPitch)
            second == SelectSeq(generated_pair[2].events, IsPitch)
        IN  /\ Len(sequence.notes) = Len(first) + Len(second)
            /\ \A i \in 1..Len(first) :
                   sequence.notes[i].instrument = 0 /\ sequence.notes[i].pitch = first[i]
            /\ \A i \in 1..Len(second) :
                   /\ sequence.notes[Len(first) + i].instrument = 1
                   /\ sequence.notes[Len(first) + i].pitch = second[i]

C8_Witness ==
    /\ pc = "returned"
    /\ \E i, j \in 1..Len(sequence.notes) :
           sequence.notes[i].instrument = 0 /\ sequence.notes[j].instrument = 1
    /\ Len(generated_pair[1].events) # Len(generated_pair[2].events)

\* C9: seconds_to_steps(seconds, qpm) is floor(seconds * qpm * 4 / 60), and the
\* length 60 / qpm of a quarter note converts to 4 steps.
C9_ExactFloor ==
    conv_pc = "done"
        => /\ steps = ExactSteps(FloatDivInt(seconds.num, seconds.den), conv_qpm)
           /\ (seconds.num = SECONDS_PER_MINUTE /\ seconds.den = conv_qpm)
                  => steps = STEPS_PER_QUARTER

\* C10: the num_steps passed to the model is not negative.
C10_NumStepsNotNegative == ModelCalls = 1 => num_steps >= 0

====
